---- MODULE Spec2Model ----
(***************************************************************************)
(* Degrees of separation: the frontier classes of util.py and load_data,   *)
(* neighbors_for_person and shortest_path of degrees.py.                   *)
(***************************************************************************)
EXTENDS Integers, Sequences, FiniteSets, TLC

\* ------------------------------------------------------------------ bounds
\* credits (person, movie) the tables hold after load_data
MaxStars == 6
\* calls of shortest_path after load_data
MaxCalls == 2
\* nodes created by the frontier driver
MaxNodes == 4

\* ------------------------------------------------------------- input sets
\* ids a row or a query may name; people.csv lists a prefix of PersonOrder
PersonOrder == <<"A", "B", "C", "D">>
PersonIds == {PersonOrder[i] : i \in 1..Len(PersonOrder)}
\* movies.csv lists MovieOrder; a stars.csv row may also name DanglingMovie
MovieOrder == <<"M1", "M2">>
DanglingMovie == "M9"
MovieIds == {MovieOrder[i] : i \in 1..Len(MovieOrder)} \cup {DanglingMovie}

\* the cells of a people.csv / movies.csv row, by id
RowName(id) == CASE id = "A" -> "Al" [] id = "B" -> "al" [] id = "C" -> "Bo" [] OTHER -> "Di"
RowBirth(id) == CASE id = "A" -> "1950" [] id = "B" -> "1960" [] OTHER -> ""
RowTitle(id) == CASE id = "M1" -> "T1" [] OTHER -> "T2"
RowYear(id) == CASE id = "M1" -> "1990" [] OTHER -> "2000"

\* str.lower() on the names above
Lower(s) == CASE s = "Al" -> "al" [] s = "al" -> "al" [] s = "Bo" -> "bo" [] s = "Di" -> "di" [] OTHER -> s

\* None, as a parent reference and as an action label
NoParent == 0
NoAction == "None"

VARIABLES
    pc,        \* position: load_data's three loops, then shortest_path's lines
    names,     \* degrees.names: lower-cased name -> set of person ids
    people,    \* degrees.people: person id -> [name, birth, movies]
    movies,    \* degrees.movies: movie id -> [title, year, stars]
    heap,      \* the Node objects created, by reference (index)
    kind,      \* class of the frontier object
    frontier,  \* the frontier object's .frontier list (node references)
    explored,  \* shortest_path: explored
    node,      \* shortest_path: node (reference)
    pending,   \* shortest_path: the rest of the for loop's iteration
    source,    \* shortest_path: source
    target,    \* shortest_path: target
    result,    \* outcome of the last finished call
    enum,      \* by person: the pairs of its neighbor set that made a node, in the
               \* order the first call's iteration yielded them
    calls,     \* the outcomes of the finished calls of shortest_path, in order
    taken,     \* frontier driver: the nodes remove has returned, in order
    op         \* frontier driver: the last call made on the frontier object

vars == <<pc, names, people, movies, heap, kind, frontier, explored,
          node, pending, source, target, result, enum, calls, taken, op>>

tables == <<names, people, movies>>
search == <<heap, kind, frontier, explored, node, pending, source, target,
            result, enum, calls, taken, op>>

\* an empty dict
EmptyMap == [x \in {} |-> {}]

\* d[k] = v on a dict
Put(d, k, v) == [x \in (DOMAIN d) \cup {k} |-> IF x = k THEN v ELSE d[x]]

\* no exception
NoError == "no error"

\* outcomes of a call
NoResult == [kind |-> "none yet", chain |-> <<>>]
ReturnNone == [kind |-> "None", chain |-> <<>>]
ReturnChain(c) == [kind |-> "chain", chain |-> c]
ReturnNode == [kind |-> "Node", chain |-> <<>>]
Raise(e) == [kind |-> e, chain |-> <<>>]

Init ==
    /\ pc = "people"
    /\ names = EmptyMap
    /\ people = EmptyMap
    /\ movies = EmptyMap
    /\ heap = <<>>
    /\ kind = "QueueFrontier"
    /\ frontier = <<>>
    /\ explored = {}
    /\ node = NoParent
    /\ pending = {}
    /\ source = "A"
    /\ target = "A"
    /\ result = NoResult
    /\ enum = EmptyMap
    /\ calls = <<>>
    /\ taken = <<>>
    /\ op = "none"

\* --------------------------------------------------------------- load_data
\* lines 31-41: one row of people.csv
LoadPerson(id) ==
    /\ pc = "people"
    /\ Len(PersonOrder) > Cardinality(DOMAIN people)
    /\ id = PersonOrder[Cardinality(DOMAIN people) + 1]
    /\ people' = Put(people, id, [name |-> RowName(id), birth |-> RowBirth(id), movies |-> {}])
    /\ LET key == Lower(RowName(id))
       IN names' = IF key \notin DOMAIN names
                   THEN Put(names, key, {id})
                   ELSE Put(names, key, names[key] \cup {id})
    /\ UNCHANGED <<pc, movies>>
    /\ UNCHANGED search

\* people.csv is exhausted
EndPeople ==
    /\ pc = "people"
    /\ pc' = "movies"
    /\ UNCHANGED <<names, people, movies>>
    /\ UNCHANGED search

\* lines 46-51: one row of movies.csv
LoadMovie(id) ==
    /\ pc = "movies"
    /\ Len(MovieOrder) > Cardinality(DOMAIN movies)
    /\ id = MovieOrder[Cardinality(DOMAIN movies) + 1]
    /\ movies' = Put(movies, id, [title |-> RowTitle(id), year |-> RowYear(id), stars |-> {}])
    /\ UNCHANGED <<pc, names, people>>
    /\ UNCHANGED search

\* movies.csv is exhausted
EndMovies ==
    /\ pc = "movies"
    /\ Cardinality(DOMAIN movies) = Len(MovieOrder)
    /\ pc' = "stars"
    /\ UNCHANGED <<names, people, movies>>
    /\ UNCHANGED search

\* line 58, which raises KeyError when the person is unknown
AddMovieToPerson(p, m) ==
    IF p \in DOMAIN people
    THEN [raised |-> FALSE,
          people |-> [people EXCEPT ![p].movies = people[p].movies \cup {m}]]
    ELSE [raised |-> TRUE, people |-> people]

\* line 59, which raises KeyError when the movie is unknown
AddStarToMovie(p, m) ==
    IF m \in DOMAIN movies
    THEN [raised |-> FALSE,
          movies |-> [movies EXCEPT ![m].stars = movies[m].stars \cup {p}]]
    ELSE [raised |-> TRUE, movies |-> movies]

RECURSIVE SumMovies(_, _)
SumMovies(t, ids) ==
    IF ids = {} THEN 0
    ELSE LET p == CHOOSE x \in ids : TRUE
         IN Cardinality(t[p].movies) + SumMovies(t, ids \ {p})

\* the credits the people table holds
Credits == SumMovies(people, DOMAIN people)

\* lines 56-62: one row of stars.csv; a KeyError abandons the row where it is
LoadStar(p, m) ==
    /\ pc = "stars"
    /\ Credits < MaxStars
    /\ LET a == AddMovieToPerson(p, m)
           b == AddStarToMovie(p, m)
       IN /\ people' = a.people
          /\ movies' = IF a.raised THEN movies ELSE b.movies
    /\ UNCHANGED <<pc, names>>
    /\ UNCHANGED search

\* stars.csv is exhausted: load_data returns
EndStars ==
    /\ pc = "stars"
    /\ pc' = "ready"
    /\ UNCHANGED <<names, people, movies>>
    /\ UNCHANGED search

Load ==
    \/ \E id \in PersonIds : LoadPerson(id)
    \/ EndPeople
    \/ \E id \in MovieIds : LoadMovie(id)
    \/ EndMovies
    \/ \E p \in PersonIds, m \in MovieIds : LoadStar(p, m)
    \/ EndStars

\* ------------------------------------------------------------------ util.py
\* Node(state, parent, action), lines 17-19
Node(s, p, a) == [state |-> s, parent |-> p, action |-> a]

\* StackFrontier.add, line 31
FrontierAdd(f, n) == Append(f, n)

\* faulty variant: only the oldest node is looked at
ContainsStateHead(h, f, s) == Len(f) > 0 /\ h[f[1]].state = s

\* StackFrontier.contains_state, line 35 (h: the nodes by reference)
ContainsState(h, f, s) == \E i \in 1..Len(f) : h[f[i]].state = s

\* StackFrontier.empty, line 39
Empty(f) == Len(f) = 0

\* raise Exception("empty frontier"), lines 44 and 56: the class raised
EmptyFrontier == "Exception"

\* faulty variant: the oldest node is popped
StackRemoveOldest(f) ==
    IF Empty(f)
    THEN [raised |-> EmptyFrontier, node |-> NoParent, frontier |-> f]
    ELSE [raised |-> NoError, node |-> f[1], frontier |-> SubSeq(f, 2, Len(f))]

\* StackFrontier.remove, lines 43-48: raised is the exception's class, or NoError
StackRemove(f) ==
    IF Empty(f)
    THEN [raised |-> EmptyFrontier, node |-> NoParent, frontier |-> f]
    ELSE [raised |-> NoError, node |-> f[Len(f)], frontier |-> SubSeq(f, 1, Len(f) - 1)]

\* faulty variant: remove is not overridden, the inherited one pops the newest node
QueueRemoveInherited(f) == StackRemove(f)

\* faulty variant: no empty check, self.frontier[0] raises IndexError on an empty list
QueueRemoveUnguarded(f) ==
    IF Len(f) = 0
    THEN [raised |-> "IndexError", node |-> NoParent, frontier |-> f]
    ELSE [raised |-> NoError, node |-> f[1], frontier |-> SubSeq(f, 2, Len(f))]

\* faulty variant: the head is returned and stays in the list
QueueRemoveKeeps(f) ==
    IF Empty(f)
    THEN [raised |-> EmptyFrontier, node |-> NoParent, frontier |-> f]
    ELSE [raised |-> NoError, node |-> f[1], frontier |-> f]

\* QueueFrontier.remove, lines 55-60
QueueRemove(f) ==
    IF Empty(f)
    THEN [raised |-> EmptyFrontier, node |-> NoParent, frontier |-> f]
    ELSE [raised |-> NoError, node |-> f[1], frontier |-> SubSeq(f, 2, Len(f))]

\* frontier.remove() on an object of class k
Remove(k, f) == IF k = "StackFrontier" THEN StackRemove(f) ELSE QueueRemove(f)

\* ---------------------------------------------------- neighbors_for_person
\* faulty variant: the person is looked up with people.setdefault(person_id,
\* {...}), which enters an unknown id into the table
NeighborsForPersonSetdefault(person_id) ==
    IF person_id \notin DOMAIN people
    THEN [raised |-> NoError, pairs |-> {},
          people |-> Put(people, person_id, [name |-> "", birth |-> "", movies |-> {}])]
    ELSE IF \E movie_id \in people[person_id].movies : movie_id \notin DOMAIN movies
    THEN [raised |-> "KeyError", pairs |-> {}, people |-> people]
    ELSE [raised |-> NoError,
          pairs |-> UNION {{<<movie_id, star_id>> : star_id \in movies[movie_id].stars} :
                           movie_id \in people[person_id].movies},
          people |-> people]

\* lines 104-108; people[person_id] and movies[movie_id] raise KeyError.
\* people: the people table after the call, which only reads it
NeighborsForPerson(person_id) ==
    IF person_id \notin DOMAIN people
    THEN [raised |-> "KeyError", pairs |-> {}, people |-> people]
    ELSE IF \E movie_id \in people[person_id].movies : movie_id \notin DOMAIN movies
    THEN [raised |-> "KeyError", pairs |-> {}, people |-> people]
    ELSE [raised |-> NoError,
          pairs |-> UNION {{<<movie_id, star_id>> : star_id \in movies[movie_id].stars} :
                           movie_id \in people[person_id].movies},
          people |-> people]

\* ------------------------------------------------------------ shortest_path
\* faulty variant: explored outlives the call (a module-level set)
NewSearchSharedExplored(s) ==
    [heap |-> <<Node(s, NoParent, NoAction)>>,
     frontier |-> FrontierAdd(<<>>, 1),
     explored |-> explored]

\* lines 125-128: the locals a call starts with
NewSearch(s) ==
    [heap |-> <<Node(s, NoParent, NoAction)>>,
     frontier |-> FrontierAdd(<<>>, 1),
     explored |-> {}]

StartSearch(s) ==
    LET n == NewSearch(s)
    IN /\ heap' = n.heap
       /\ frontier' = n.frontier
       /\ explored' = n.explored
       /\ kind' = "QueueFrontier"
       /\ node' = NoParent
       /\ pending' = {}
       /\ pc' = "while"

\* main, line 178: the first call after load_data
Call(s, t) ==
    /\ pc = "ready"
    /\ calls = <<>>
    /\ source' = s
    /\ target' = t
    /\ StartSearch(s)
    /\ UNCHANGED <<result, enum, calls, taken, op>>
    /\ UNCHANGED tables

\* the same call again, over the same tables
Recall ==
    /\ pc = "ready"
    /\ calls # <<>>
    /\ Len(calls) < MaxCalls
    /\ StartSearch(source)
    /\ UNCHANGED <<source, target, result, enum, calls, taken, op>>
    /\ UNCHANGED tables

\* the same call in another run of the program over the same files, the
\* second of the pair of runs that are compared: the
\* tables are the same, the hashes of the id strings are seeded anew, so the
\* sets iterate in an order of their own
RecallAnyOrder ==
    /\ pc = "ready"
    /\ Len(calls) = 1
    /\ StartSearch(source)
    /\ enum' = EmptyMap
    /\ UNCHANGED <<source, target, result, calls, taken, op>>
    /\ UNCHANGED tables

\* the call ends with outcome r; calls keeps, for each call so far, its
\* outcome and the explored set it ended with
Finish(r) ==
    /\ result' = r
    /\ calls' = Append(calls, [kind |-> r.kind, chain |-> r.chain, explored |-> explored])
    /\ pc' = "ready"

\* faulty variant: while True
WhileTrue == TRUE

\* line 130: the loop's condition
WhileCondition == ~Empty(frontier)

\* line 130: while not frontier.empty(), and line 148 when it is
LoopTest ==
    /\ pc = "while"
    /\ IF WhileCondition
       THEN pc' = "remove" /\ UNCHANGED <<result, calls>>
       ELSE Finish(ReturnNone)
    /\ UNCHANGED <<heap, kind, frontier, explored, node, pending, source, target,
                   enum, taken, op>>
    /\ UNCHANGED tables

\* lines 131-132
RemoveNode ==
    /\ pc = "remove"
    /\ LET r == Remove(kind, frontier)
       IN IF r.raised # NoError
          THEN /\ Finish(Raise(r.raised))
               /\ UNCHANGED <<frontier, node, explored>>
          ELSE /\ node' = r.node
               /\ frontier' = r.frontier
               /\ explored' = explored \cup {heap[r.node].state}
               /\ pc' = "neighbors"
               /\ UNCHANGED <<result, calls>>
    /\ UNCHANGED <<heap, kind, pending, source, target, enum, taken, op>>
    /\ UNCHANGED tables

\* line 134: neighbors_for_person(node.state) builds the set the loop iterates
CallNeighbors ==
    /\ pc = "neighbors"
    /\ LET n == NeighborsForPerson(heap[node].state)
       IN /\ people' = n.people
          /\ IF n.raised # NoError
             THEN /\ Finish(Raise(n.raised))
                  /\ UNCHANGED pending
             ELSE /\ pending' = n.pairs
                  /\ pc' = "for"
                  /\ UNCHANGED <<result, calls>>
    /\ UNCHANGED <<heap, kind, frontier, explored, node, source, target, enum, taken, op>>
    /\ UNCHANGED <<names, movies>>

\* the recorded pairs of person p the running iteration has not yielded yet
Unyielded(p) ==
    IF p \in DOMAIN enum
    THEN SelectSeq(enum[p], LAMBDA y : y \in pending)
    ELSE <<>>

\* the set's iteration order: any order, but building the same set again over
\* the same tables iterates it in the same order. Only the pairs that made a
\* node are recorded (a skipped pair has no effect wherever it comes), and a
\* later call yields them in that order ahead of the others.
MayYield(x) ==
    LET rest == Unyielded(heap[node].state)
    IN /\ x \in pending
       /\ rest # <<>> => x = rest[1]

\* the record after pair x made a node
Recorded(x) ==
    LET p == heap[node].state
        old == IF p \in DOMAIN enum THEN enum[p] ELSE <<>>
    IN IF \E i \in 1..Len(old) : old[i] = x THEN enum ELSE Put(enum, p, Append(old, x))

\* faulty variant: while node is not None, which takes the root's step too
RECURSIVE ChainUpWithRoot(_, _)
ChainUpWithRoot(h, c) ==
    IF c = NoParent THEN <<>>
    ELSE <<<<h[c].action, h[c].state>>>> \o ChainUpWithRoot(h, h[c].parent)

\* lines 140-143: the steps from child c up to the root, child first
RECURSIVE ChainUp(_, _)
ChainUp(h, c) ==
    IF h[c].parent = NoParent THEN <<>>
    ELSE <<<<h[c].action, h[c].state>>>> \o ChainUp(h, h[c].parent)

\* list.reverse(), line 144
Reverse(q) == [i \in 1..Len(q) |-> q[Len(q) + 1 - i]]

\* faulty variant: chain.reverse() is missing
ReconstructUnreversed(h, c) == ChainUp(h, c)

\* lines 139-145
Reconstruct(h, c) == Reverse(ChainUp(h, c))

\* faulty variant: the test of line 135 forgets the explored set
SeenInFrontierOnly(person_id) == ContainsState(heap, frontier, person_id)

\* line 135, negated: the neighbor was expanded before or waits in the frontier
Seen(person_id) ==
    person_id \in explored \/ ContainsState(heap, frontier, person_id)

\* lines 134-146: one iteration of the for loop, on the pair x
ForStep(x) ==
    /\ pc = "for"
    /\ MayYield(x)
    /\ pending' = pending \ {x}
    /\ LET movie_id == x[1]
           person_id == x[2]
       IN IF Seen(person_id)
          THEN UNCHANGED <<heap, frontier, pc, result, calls, enum>>
          ELSE LET h == Append(heap, Node(person_id, node, movie_id))
                   child == Len(h)
               IN /\ heap' = h
                  /\ enum' = Recorded(x)
                  /\ IF person_id = target
                     THEN /\ Finish(ReturnChain(Reconstruct(h, child)))
                          /\ UNCHANGED frontier
                     ELSE /\ frontier' = FrontierAdd(frontier, child)
                          /\ UNCHANGED <<pc, result, calls>>
    /\ UNCHANGED <<kind, explored, node, source, target, taken, op>>
    /\ UNCHANGED tables

\* line 134: the iteration is exhausted
ForExit ==
    /\ pc = "for"
    /\ pending = {}
    /\ pc' = "while"
    /\ UNCHANGED <<heap, kind, frontier, explored, node, pending, source, target,
                   result, enum, calls, taken, op>>
    /\ UNCHANGED tables

Search ==
    \/ \E s \in PersonIds, t \in PersonIds : Call(s, t)
    \/ Recall
    \/ LoopTest
    \/ RemoveNode
    \/ CallNeighbors
    \/ \E x \in MovieIds \X PersonIds : ForStep(x)
    \/ ForExit

Next == Load \/ Search

Spec == Init /\ [][Next]_vars

\* the steps inside a call of shortest_path
Steps ==
    \/ LoopTest
    \/ RemoveNode
    \/ CallNeighbors
    \/ \E x \in MovieIds \X PersonIds : ForStep(x)
    \/ ForExit

\* load_data, then one call
NextLive ==
    \/ Load
    \/ \E s \in PersonIds, t \in PersonIds : Call(s, t)
    \/ Steps

\* a call that has begun runs on: one thread, nothing to wait for, and no
\* cancellation or timeout
SpecLive == Init /\ [][NextLive]_vars /\ WF_vars(Steps)

\* the searches of runs that iterate their sets in unrelated orders
SearchOrders ==
    \/ \E s \in PersonIds, t \in PersonIds : Call(s, t)
    \/ RecallAnyOrder
    \/ LoopTest
    \/ RemoveNode
    \/ CallNeighbors
    \/ \E x \in MovieIds \X PersonIds : ForStep(x)
    \/ ForExit

NextOrders == Load \/ SearchOrders

SpecOrders == Init /\ [][NextOrders]_vars

\* ---------------------------------------------------------- frontier driver
\* states of the nodes the driver adds
DriverStates == {"A", "B", "C"}

\* a fresh frontier object of either class, lines 25-27
InitFrontier ==
    /\ pc = "driver"
    /\ kind \in {"StackFrontier", "QueueFrontier"}
    /\ names = EmptyMap
    /\ people = EmptyMap
    /\ movies = EmptyMap
    /\ heap = <<>>
    /\ frontier = <<>>
    /\ explored = {}
    /\ node = NoParent
    /\ pending = {}
    /\ source = "A"
    /\ target = "A"
    /\ result = NoResult
    /\ enum = EmptyMap
    /\ calls = <<>>
    /\ taken = <<>>
    /\ op = "none"

\* frontier.add(Node(s, None, None))
DriverAdd(s) ==
    /\ pc = "driver"
    /\ Len(heap) < MaxNodes
    /\ heap' = Append(heap, Node(s, NoParent, NoAction))
    /\ frontier' = FrontierAdd(frontier, Len(heap) + 1)
    /\ UNCHANGED taken
    /\ op' = "add"
    /\ result' = ReturnNone
    /\ UNCHANGED <<pc, kind, explored, node, pending, source, target, enum, calls>>
    /\ UNCHANGED tables

\* node = frontier.remove(); a raise leaves no node
\* (written as NoParent)
DriverRemove ==
    /\ pc = "driver"
    /\ LET r == Remove(kind, frontier)
       IN /\ frontier' = r.frontier
          /\ node' = r.node
          /\ taken' = IF r.raised # NoError THEN taken ELSE Append(taken, r.node)
          /\ result' = IF r.raised # NoError THEN Raise(r.raised) ELSE ReturnNode
    /\ op' = IF Len(frontier) = 0 THEN "remove on empty" ELSE "remove"
    /\ UNCHANGED <<pc, kind, heap, explored, pending, source, target, enum, calls>>
    /\ UNCHANGED tables

NextFrontier ==
    \/ \E s \in DriverStates : DriverAdd(s)
    \/ DriverRemove

SpecFrontier == InitFrontier /\ [][NextFrontier]_vars

\* ------------------------------------------------------------------ claims
\* shortest_path(source, target) has ended with result
Finished == pc = "ready" /\ calls # <<>>

\* the people who share a movie with p
Costars(p) ==
    IF p \notin DOMAIN people THEN {}
    ELSE {q \in PersonIds : \E m \in people[p].movies \cap DOMAIN movies :
                                p \in movies[m].stars /\ q \in movies[m].stars}

\* the people within k shared-movie edges of s
RECURSIVE Within(_, _)
Within(s, k) ==
    IF k = 0 THEN {s}
    ELSE LET w == Within(s, k - 1) IN w \cup UNION {Costars(p) : p \in w}

Reachable(s, t) == t \in Within(s, Cardinality(PersonIds))

\* the reference distance: the least number of shared-movie edges from s to t
Distance(s, t) ==
    CHOOSE k \in 0..Cardinality(PersonIds) :
        t \in Within(s, k) /\ \A j \in 0..(k - 1) : t \notin Within(s, j)

\* every movie id of a person's movies set is in the movies table
Consistent == \A p \in DOMAIN people : people[p].movies \subseteq DOMAIN movies

\* C1 as claimed: for distinct s, t of the people table with t reachable from
\* s, shortest_path(s, t) returns a list as long as the reference distance
C1_AsClaimed ==
    (/\ Finished
     /\ source # target
     /\ source \in DOMAIN people
     /\ target \in DOMAIN people
     /\ Reachable(source, target))
    => (result.kind = "chain" /\ Len(result.chain) = Distance(source, target))

\* C2 as claimed: for s, t of the people table in different connected
\* components, shortest_path(s, t) returns None, not a path and not an error
C2_AsClaimed ==
    (/\ Finished
     /\ source \in DOMAIN people
     /\ target \in DOMAIN people
     /\ ~Reachable(source, target))
    => result = ReturnNone

\* c is a chain of steps from s to t through shared movies, the root left out
ValidChain(s, t, c) ==
    /\ Len(c) >= 1
    /\ c[Len(c)][2] = t
    /\ \A i \in 1..Len(c) :
        LET prev == IF i = 1 THEN s ELSE c[i - 1][2]
            m == c[i][1]
            q == c[i][2]
        IN /\ m \in DOMAIN movies
           /\ prev \in movies[m].stars
           /\ q \in movies[m].stars
           /\ prev \in DOMAIN people
           /\ m \in people[prev].movies
           /\ q # s

\* people {A, B, C}, M1 starring {A, B}, M2 starring {B, C}
ExampleTables ==
    /\ DOMAIN people = {"A", "B", "C"}
    /\ people["A"].movies = {"M1"}
    /\ people["B"].movies = {"M1", "M2"}
    /\ people["C"].movies = {"M2"}
    /\ movies["M1"].stars = {"A", "B"}
    /\ movies["M2"].stars = {"B", "C"}

\* C3: a returned path is a valid chain of (movie, person) steps from source
\* to target, in source-to-target order and without a step for the root; on
\* the example tables shortest_path(A, C) = [(M1, B), (M2, C)]
C3_ValidChain ==
    (Finished /\ result.kind = "chain")
    => /\ ValidChain(source, target, result.chain)
       /\ (ExampleTables /\ source = "A" /\ target = "C")
          => result.chain = <<<<"M1", "B">>, <<"M2", "C">>>>

C3_Witness ==
    /\ Finished
    /\ ExampleTables
    /\ source = "A"
    /\ target = "C"
    /\ result.kind = "chain"

\* C4 as claimed: with source or target absent from the people table,
\* shortest_path returns None and raises nothing (here for distinct ids)
C4_AsClaimed ==
    (/\ Finished
     /\ source # target
     /\ source \notin DOMAIN people \/ target \notin DOMAIN people)
    => result = ReturnNone

\* C5 as claimed: shortest_path(source, source) returns the empty list (here
\* for a source of the people table, over tables without dangling ids)
C5_AsClaimed ==
    (/\ Finished
     /\ source = target
     /\ source \in DOMAIN people
     /\ Consistent)
    => result = ReturnChain(<<>>)

\* C10: a repeated call with the same source and target, over the same
\* tables and with the same iteration order, ends as the first call did
C10_Idempotent ==
    \A i \in 1..Len(calls) : calls[i] = calls[1]

C10_Witness ==
    /\ Len(calls) = MaxCalls
    /\ pc = "ready"
    /\ result.kind = "chain"
    /\ Len(result.chain) = 2

\* ------------------------------------------------------- claims: frontiers
Range(q) == {q[i] : i \in 1..Len(q)}

\* the nodes added and not yet returned by remove
Stored == (1..Len(heap)) \ Range(taken)

\* the states of the nodes of q, in order
StatesOf(q) == [i \in 1..Len(q) |-> heap[q[i]].state]

\* C6: a QueueFrontier's remove returns the earliest-added node still stored
\* and deletes that node only: the nodes returned so far, followed by the
\* nodes stored, are the nodes added, in the order they were added
C6_QueueFifo ==
    kind = "QueueFrontier"
    => /\ taken \o frontier = [i \in 1..Len(heap) |-> i]
       /\ (op = "remove" => node = taken[Len(taken)])
       /\ (StatesOf(frontier) = <<>> /\ Len(heap) = 3 /\ StatesOf(<<1, 2, 3>>) = <<"A", "B", "C">>
            /\ Len(taken) = 3)
          => StatesOf(taken) = <<"A", "B", "C">>

C6_Witness ==
    /\ kind = "QueueFrontier"
    /\ op = "remove"
    /\ Len(heap) = 3
    /\ StatesOf(taken) = <<"A", "B", "C">>

\* C7: a StackFrontier's remove returns the most recently added node still
\* stored and deletes that node only, the rest staying in insertion order
C7_StackLifo ==
    kind = "StackFrontier"
    => /\ Range(frontier) = Stored
       /\ \A i, j \in 1..Len(frontier) : i < j => frontier[i] < frontier[j]
       /\ \A i, j \in 1..Len(taken) : i # j => taken[i] # taken[j]
       /\ op = "remove" => /\ node = taken[Len(taken)]
                           /\ \A n \in Stored : n < node
       /\ (Len(heap) = 3 /\ StatesOf(<<1, 2, 3>>) = <<"A", "B", "C">> /\ taken = <<3, 2, 1>>)
          => StatesOf(taken) = <<"C", "B", "A">>

C7_Witness ==
    /\ kind = "StackFrontier"
    /\ op = "remove"
    /\ Len(heap) = 3
    /\ frontier = <<>>
    /\ StatesOf(taken) = <<"C", "B", "A">>

C9_ContainsState ==
    \A x \in DriverStates :
        ContainsState(heap, frontier, x) <=> \E n \in Stored : heap[n].state = x

\* a node was removed and another node of the same state is still stored
C9_Witness ==
    /\ op = "remove"
    /\ \E n \in Stored : n # node /\ heap[n].state = heap[node].state
    /\ ContainsState(heap, frontier, heap[node].state)

\* ------------------------------------------------------- claims: load_data
\* C11 as claimed: a stars.csv row naming a person or a movie that is not in
\* its table is dropped with no effect on the people and the movies table
C11_AsClaimed ==
    [][\A p \in PersonIds, m \in MovieIds :
           (LoadStar(p, m) /\ (p \notin DOMAIN people \/ m \notin DOMAIN movies))
           => (people' = people /\ movies' = movies)]_vars

\* ---------------------------------------------------- claims: search steps
\* load_data is running
Loading == pc \in {"people", "movies", "stars"}

\* C12: no step of shortest_path or of neighbors_for_person changes the
\* people, movies or names table, whatever the call's outcome
C12_ReadOnly ==
    [][~Loading => (names' = names /\ people' = people /\ movies' = movies)]_vars

C12_Witness ==
    /\ Finished
    /\ Len(calls) = 1
    /\ DOMAIN people = PersonIds
    /\ result.kind = "chain"
    /\ Credits = MaxStars

\* shortest_path is between its first loop test and its return
Running == pc \in {"while", "remove", "neighbors", "for"}

\* C13: while shortest_path runs, the frontier holds no two nodes of the same
\* state, no state of the frontier is in explored, no two nodes were ever made
\* for the same state (so none is removed and expanded twice), and no node is
\* the child of a node of its own state (a self pair is never enqueued)
C13_NoRepeat ==
    Running =>
        /\ \A i, j \in 1..Len(frontier) :
               i # j => heap[frontier[i]].state # heap[frontier[j]].state
        /\ \A i \in 1..Len(frontier) : heap[frontier[i]].state \notin explored
        /\ \A i, j \in 1..Len(heap) : i # j => heap[i].state # heap[j].state
        /\ \A i \in 1..Len(heap) :
               heap[i].parent # NoParent => heap[heap[i].parent].state # heap[i].state

\* the second expansion's neighbor set held a self pair, and its for loop has
\* run to the end with two nodes waiting
C13_Witness ==
    /\ pc = "for"
    /\ pending = {}
    /\ Cardinality(explored) = 2
    /\ Len(frontier) = 2
    /\ \E m \in DOMAIN movies :
           /\ m \in people[heap[node].state].movies
           /\ heap[node].state \in movies[m].stars

\* C14 as claimed: with source = target in the people table, shortest_path
\* expands every state reachable from source and then returns None
C14_AsClaimed ==
    (Finished /\ source = target /\ source \in DOMAIN people)
    => (/\ result = ReturnNone
        /\ explored = Within(source, Cardinality(PersonIds)))

\* C15 as claimed: a movie id of a person's movies set that is absent from
\* the movies table is passed over by neighbors_for_person, so a call of
\* shortest_path from a person of the people table raises no error
C15_AsClaimed ==
    (Finished /\ source \in DOMAIN people) => result.kind # "KeyError"

\* C18: shortest_path reaches frontier.remove() only with a node in the
\* frontier, and no call ends with the empty-frontier error
C18_NoUnderflow ==
    /\ pc = "remove" => ~Empty(frontier)
    /\ \A i \in 1..Len(calls) : calls[i].kind # EmptyFrontier

\* the loop emptied a frontier of three removals, tested it and returned None
C18_Witness ==
    /\ Finished
    /\ result = ReturnNone
    /\ Empty(frontier)
    /\ Cardinality(explored) = 3

\* ------------------------------------------------ claims: iteration order
\* C16 as claimed: two calls with the same source and target over the same
\* tables, each iterating its neighbor sets in an order of its own, end with
\* the same explored set and with paths of the same length (checked over
\* tables with no dangling id and a source of the people table)
C16_AsClaimed ==
    (Len(calls) = 2 /\ Consistent /\ source \in DOMAIN people)
    => (/\ calls[1].explored = calls[2].explored
        /\ Len(calls[1].chain) = Len(calls[2].chain))

\* C16, amended: whatever the iteration order, a returned path has the length
\* of the reference distance, so any two returned paths are equally long; and
\* a call that returns None has explored every state reachable from source,
\* as every other call then does. (The explored set of a call that returns a
\* path depends on the order.)
C16_SameLength ==
    \A i, j \in 1..Len(calls) :
        /\ calls[i].kind = "chain" =>
               /\ Len(calls[i].chain) = Distance(source, target)
               /\ calls[j].kind = "chain" => Len(calls[j].chain) = Len(calls[i].chain)
        /\ calls[i].kind = "None" =>
               /\ calls[i].explored = Within(source, Cardinality(PersonIds))
               /\ calls[j] = calls[i]

\* two calls returned different paths after exploring different sets
C16_Witness ==
    /\ Len(calls) = 2
    /\ calls[1].kind = "chain"
    /\ calls[2].kind = "chain"
    /\ calls[1].chain # calls[2].chain
    /\ calls[1].explored # calls[2].explored

\* ------------------------------------------------------ claims: termination
\* C17: over tables with no dangling id and with source in the people table,
\* a call that has begun ends, with a path or with None; and each expansion
\* on the way takes a person of the people table that was not expanded before
C17_Terminates ==
    /\ (pc = "while" /\ Consistent /\ source \in DOMAIN people)
           ~> (pc = "ready" /\ result.kind \in {"chain", "None"})
    /\ [][(pc = "remove" /\ pc' = "neighbors" /\ Consistent /\ source \in DOMAIN people)
              => (/\ heap[node'].state \in DOMAIN people
                  /\ heap[node'].state \notin explored
                  /\ explored' = explored \cup {heap[node'].state})]_vars

\* a call over four people ended with None after expanding each of them once
C17_Witness ==
    /\ Finished
    /\ Consistent
    /\ source \in DOMAIN people
    /\ result = ReturnNone
    /\ explored = PersonIds
====
